---- MODULE Spec2Model ----
(***************************************************************************)
(* StudyTracker: the task repository (TaskManager), the rolling stats      *)
(* record kept in localStorage (Storage) and the id/date utilities (Utils).*)
(*                                                                         *)
(* Encoding of JavaScript values                                           *)
(*   strings that the code trims     sequences of one-character strings    *)
(*   enum-like strings               TLA+ strings, "" is the falsy value   *)
(*                                   (undefined, null or '')               *)
(*   timestamps (ISO strings)        clock ticks 0..MaxNow; Null when the  *)
(*                                   value is null/undefined               *)
(*   date strings YYYY-MM-DD         day numbers, DayOf(tick); Null when   *)
(*                                   absent                                *)
(*   ids                             integers: 0 is a missing id, -k the   *)
(*                                   JS number k, k in 1..99 the string    *)
(*                                   "k", generateId(n) the n-th generated *)
(*                                   string `${ms}-${random}`              *)
(*   object identity                 field ref of a task object: 0, or the *)
(*                                   number under which a caller holds a   *)
(*                                   reference to this very object         *)
(***************************************************************************)
EXTENDS Integers, Sequences, FiniteSets, TLC

\* ------------------------------------------------------------------ bounds
MaxTasks == 2
MaxNow == 2
MaxCalls == 3
TicksPerDay == 2
MaxDay == 3
MaxStored == 40

\* seconds a timer minute lasts in the model (60 in the program)
SecondsPerMinute == 1

\* null / undefined for timestamps and dates
Null == -1

VARIABLES
    tasks,      \* TaskManager.tasks, the in-memory collection
    lsTasks,    \* localStorage['study_tracker_tasks'] as Storage.getTasks reads it
    lsStats,    \* localStorage['study_tracker_stats'] as Storage.getStats reads it
    now,        \* the clock: Date.now() / new Date()
    quotaFull,  \* localStorage.setItem throws QuotaExceededError
    ret,        \* the last call: operation, arguments and returned value
    calls,      \* number of repository calls made so far
    idSeq,      \* number of ids Utils.generateId has returned so far
    view,       \* the references a caller holds: the array getAll returned
    filters,    \* TaskManager.filters, the current filter/sort state
    timer,      \* the Timer object: timeLeft, totalTime, isRunning, interval, mode
    scheduled,  \* number of intervals the browser has scheduled to call Timer.tick
    lsTimer     \* localStorage['study_tracker_timer'] as Storage.getTimerState reads it

vars == <<tasks, lsTasks, lsStats, now, quotaFull, ret, calls, idSeq, view, filters,
          timer, scheduled, lsTimer>>

\* ------------------------------------------------------------ date utilities
DayOf(t) == t \div TicksPerDay

\* Utils.getTodayString(): new Date().toISOString().split('T')[0]
getTodayString(t) == DayOf(t)

\* Utils.generateId(): `${Date.now()}-${Math.random().toString(36).substr(2, 9)}`.
\* The nine random base-36 digits are taken never to repeat within one
\* millisecond, so the n-th call returns a string no earlier call returned;
\* it has a hyphen, so it is neither "k" nor String(k) for a number k.
generateId(n) == 100 + n

\* String.prototype.startsWith(dateStr) on an ISO timestamp
StartsWithDate(ts, day) == ts # Null /\ DayOf(ts) = day

\* ------------------------------------------------------------------ strings
IsSpace(c) == c = " "

RECURSIVE TrimLeft(_)
TrimLeft(s) == IF s = <<>> THEN <<>>
               ELSE IF IsSpace(Head(s)) THEN TrimLeft(Tail(s)) ELSE s

RECURSIVE TrimRight(_)
TrimRight(s) == IF s = <<>> THEN <<>>
                ELSE IF IsSpace(s[Len(s)]) THEN TrimRight(SubSeq(s, 1, Len(s) - 1)) ELSE s

\* String.prototype.trim()
Trim(s) == TrimRight(TrimLeft(s))

\* a || b on enum-like strings
OrElse(a, b) == IF a = "" THEN b ELSE a

\* ------------------------------------------------------------------ storage
\* Storage.getStats(): the default record when the key is absent
DefaultStats ==
    [totalTasksCreated |-> 0, totalTasksCompleted |-> 0, currentStreak |-> 0,
     longestStreak |-> 0, lastActiveDate |-> Null,
     dailyStats |-> [d \in {} |-> [completed |-> 0, created |-> 0]]]

\* JSON.stringify / JSON.parse of the task array: fresh objects, same fields
Serialize(ts) == [i \in 1..Len(ts) |-> [ts[i] EXCEPT !.ref = 0]]

\* The part of the program state the repository methods read and write.
\*   tasks, lsTasks, lsStats, idSeq as the variables; full = quotaFull;
\*   wrote = number of successful writes of the tasks key during the call
Mem(ts, lt, ls, full, n) ==
    [tasks |-> ts, lsTasks |-> lt, lsStats |-> ls, full |-> full, idSeq |-> n, wrote |-> 0]

\* a plausible slip: a failed write puts the collection back to what is stored
saveTasks_RollsBack(m, ts) ==
    IF m.full THEN [m EXCEPT !.tasks = Serialize(m.lsTasks)]
    ELSE [m EXCEPT !.lsTasks = Serialize(ts), !.wrote = @ + 1]

\* Storage.save(key, data) for the tasks key (Storage.saveTasks)
saveTasks(m, ts) ==
    IF m.full THEN m
    ELSE [m EXCEPT !.lsTasks = Serialize(ts), !.wrote = @ + 1]

\* Storage.save(key, data) for the stats key (Storage.saveStats)
saveStats(m, st) == IF m.full THEN m ELSE [m EXCEPT !.lsStats = st]

\* TaskManager.save()
save(m) == saveTasks(m, m.tasks)

\* Storage.getCompletedCountByDate(date): counts the PERSISTED tasks
getCompletedCountByDate(m, day) ==
    Cardinality({i \in 1..Len(m.lsTasks) :
        /\ m.lsTasks[i].status = "completed"
        /\ StartsWithDate(m.lsTasks[i].completedAt, day)})

\* Storage.updateDailyStats(date, data) with data = {completed: n}
updateDailyStats(m, day, n) ==
    LET stats == m.lsStats
        old == IF day \in DOMAIN stats.dailyStats THEN stats.dailyStats[day]
               ELSE [completed |-> 0, created |-> 0]
        entry == [old EXCEPT !.completed = n]
        ds == [d \in DOMAIN stats.dailyStats \cup {day} |->
                  IF d = day THEN entry ELSE stats.dailyStats[d]]
    IN saveStats(m, [stats EXCEPT !.dailyStats = ds])

\* a plausible slip: only 'created' is counted
updateStats_CountsCreatedOnly(m, action, t) ==
    LET stats == m.lsStats
        s1 == IF action = "created"
                THEN [stats EXCEPT !.totalTasksCreated = @ + 1]
              ELSE stats
        today == getTodayString(t)
        lastActive == s1.lastActiveDate
        diffDays == today - lastActive
        s2 == IF lastActive # Null
                THEN IF diffDays = 1 THEN [s1 EXCEPT !.currentStreak = @ + 1]
                     ELSE IF diffDays > 1 THEN [s1 EXCEPT !.currentStreak = 1]
                     ELSE s1
              ELSE [s1 EXCEPT !.currentStreak = 1]
        s3 == IF s2.currentStreak > s2.longestStreak
                THEN [s2 EXCEPT !.longestStreak = s2.currentStreak]
              ELSE s2
    IN saveStats(m, [s3 EXCEPT !.lastActiveDate = today])

\* a plausible slip: a gap of more than one day continues the streak too
updateStats_NeverResets(m, action, t) ==
    LET stats == m.lsStats
        s1 == IF action = "created"
                THEN [stats EXCEPT !.totalTasksCreated = @ + 1]
              ELSE IF action = "completed"
                THEN [stats EXCEPT !.totalTasksCompleted = @ + 1]
              ELSE stats
        today == getTodayString(t)
        lastActive == s1.lastActiveDate
        diffDays == today - lastActive
        s2 == IF lastActive # Null
                THEN IF diffDays >= 1 THEN [s1 EXCEPT !.currentStreak = @ + 1]
                     ELSE s1
              ELSE [s1 EXCEPT !.currentStreak = 1]
        s3 == IF s2.currentStreak > s2.longestStreak
                THEN [s2 EXCEPT !.longestStreak = s2.currentStreak]
              ELSE s2
    IN saveStats(m, [s3 EXCEPT !.lastActiveDate = today])

\* a plausible slip: longestStreak is set to currentStreak on every update
updateStats_LongestFollowsCurrent(m, action, t) ==
    LET stats == m.lsStats
        s1 == IF action = "created"
                THEN [stats EXCEPT !.totalTasksCreated = @ + 1]
              ELSE IF action = "completed"
                THEN [stats EXCEPT !.totalTasksCompleted = @ + 1]
              ELSE stats
        today == getTodayString(t)
        lastActive == s1.lastActiveDate
        diffDays == today - lastActive
        s2 == IF lastActive # Null
                THEN IF diffDays = 1 THEN [s1 EXCEPT !.currentStreak = @ + 1]
                     ELSE IF diffDays > 1 THEN [s1 EXCEPT !.currentStreak = 1]
                     ELSE s1
              ELSE [s1 EXCEPT !.currentStreak = 1]
        s3 == [s2 EXCEPT !.longestStreak = s2.currentStreak]
    IN saveStats(m, [s3 EXCEPT !.lastActiveDate = today])

\* TaskManager.updateStats(action)
updateStats(m, action, t) ==
    LET stats == m.lsStats
        s1 == IF action = "created"
                THEN [stats EXCEPT !.totalTasksCreated = @ + 1]
              ELSE IF action = "completed"
                THEN [stats EXCEPT !.totalTasksCompleted = @ + 1]
              ELSE stats
        today == getTodayString(t)
        lastActive == s1.lastActiveDate
        diffDays == today - lastActive
        s2 == IF lastActive # Null
                THEN IF diffDays = 1 THEN [s1 EXCEPT !.currentStreak = @ + 1]
                     ELSE IF diffDays > 1 THEN [s1 EXCEPT !.currentStreak = 1]
                     ELSE s1
              ELSE [s1 EXCEPT !.currentStreak = 1]
        s3 == IF s2.currentStreak > s2.longestStreak
                THEN [s2 EXCEPT !.longestStreak = s2.currentStreak]
              ELSE s2
    IN saveStats(m, [s3 EXCEPT !.lastActiveDate = today])

\* ------------------------------------------------------------ the repository
\* what a call returns when it returns no task (null)
NoTask == [id |-> 0]

StatusSet == {"pending", "in-progress", "completed", "skipped"}

\* index of the first task with this id, 0 when there is none (Array.findIndex)
findIndex(ts, id) ==
    IF \E i \in 1..Len(ts) : ts[i].id = id
      THEN CHOOSE i \in 1..Len(ts) :
             /\ ts[i].id = id
             /\ \A j \in 1..(i - 1) : ts[j].id # id
      ELSE 0

\* { ...task, ...updates }: a new object, the patch's keys override
Spread(task, updates) ==
    [f \in DOMAIN task |->
        IF f = "ref" THEN 0
        ELSE IF f \in DOMAIN updates THEN updates[f] ELSE task[f]]

\* updates.key = value on the caller's patch object
SetKey(updates, key, value) ==
    [f \in DOMAIN updates \cup {key} |-> IF f = key THEN value ELSE updates[f]]

\* a plausible slip: the task literal takes status and completedAt from the input
newTask_KeepsInputStatus(taskData, id, t) ==
    [id |-> id,
     title |-> Trim(taskData.title),
     description |-> Trim(taskData.description),
     category |-> OrElse(taskData.category, "study"),
     priority |-> OrElse(taskData.priority, "medium"),
     deadline |-> taskData.deadline,
     status |-> OrElse(taskData.status, "pending"),
     createdAt |-> t,
     completedAt |-> taskData.completedAt,
     ref |-> 0]

\* the task literal of TaskManager.create
newTask(taskData, id, t) ==
    [id |-> id,
     title |-> Trim(taskData.title),
     description |-> Trim(taskData.description),
     category |-> OrElse(taskData.category, "study"),
     priority |-> OrElse(taskData.priority, "medium"),
     deadline |-> taskData.deadline,
     status |-> "pending",
     createdAt |-> t,
     completedAt |-> Null,
     ref |-> 0]

\* a plausible change: create validates the title and throws when it is blank
create_RejectsBlankTitle(m, taskData, t) ==
    LET task == newTask(taskData, generateId(m.idSeq), t)
        m1 == [m EXCEPT !.tasks = Append(@, task), !.idSeq = @ + 1]
    IN IF Trim(taskData.title) = <<>>
         THEN [m |-> m, task |-> NoTask, threw |-> TRUE]
         ELSE [m |-> updateStats(save(m1), "created", t), task |-> task, threw |-> FALSE]

\* TaskManager.create(taskData) at time t
create(m, taskData, t) ==
    LET task == newTask(taskData, generateId(m.idSeq), t)
        m1 == [m EXCEPT !.tasks = Append(@, task), !.idSeq = @ + 1]
        m2 == save(m1)
        m3 == updateStats(m2, "created", t)
    IN [m |-> m3, task |-> task, threw |-> FALSE]

\* TaskManager.update past the lookup: the task at index exists
updateAt(m, index, updates, t) ==
    LET oldStatus == m.tasks[index].status
        hasStatus == "status" \in DOMAIN updates
        toCompleted == hasStatus /\ updates.status = "completed" /\ oldStatus # "completed"
        fromCompleted == oldStatus = "completed"
                         /\ ~(hasStatus /\ updates.status = "completed")
        today == getTodayString(t)
        u1 == IF toCompleted THEN SetKey(updates, "completedAt", t) ELSE updates
        m1 == IF toCompleted
                THEN LET ma == updateStats(m, "completed", t)
                     IN updateDailyStats(ma, today, getCompletedCountByDate(ma, today) + 1)
              ELSE m
        u2 == IF fromCompleted THEN SetKey(u1, "completedAt", Null) ELSE u1
        m2 == [m1 EXCEPT !.tasks[index] = Spread(m.tasks[index], u2)]
        m3 == save(m2)
    IN [m |-> m3, task |-> m3.tasks[index], found |-> TRUE, updates |-> u2]

\* a plausible slip: the completion is counted before the id is looked up
update_CountsBeforeLookup(m, id, updates, t) ==
    LET index == findIndex(m.tasks, id)
        counts == "status" \in DOMAIN updates /\ updates.status = "completed"
    IN IF index = 0
         THEN [m |-> IF counts THEN updateStats(m, "completed", t) ELSE m,
               task |-> NoTask, found |-> FALSE, updates |-> updates]
         ELSE updateAt(m, index, updates, t)

\* TaskManager.update(id, updates) at time t; updates is mutated by the call
update(m, id, updates, t) ==
    LET index == findIndex(m.tasks, id)
    IN IF index = 0
         THEN [m |-> m, task |-> NoTask, found |-> FALSE, updates |-> updates]
         ELSE updateAt(m, index, updates, t)

RECURSIVE Filter(_, _)
\* Array.filter with keep[i] deciding element i
Filter(ts, keep) ==
    IF ts = <<>> THEN <<>>
    ELSE LET rest == Filter(Tail(ts), [i \in 1..(Len(ts) - 1) |-> keep[i + 1]])
         IN IF keep[1] THEN <<Head(ts)>> \o rest ELSE rest

\* a plausible slip: deleting a completed task takes its completion back
delete_UncountsCompleted(m, id) ==
    LET initialLength == Len(m.tasks)
        kept == Filter(m.tasks, [i \in 1..Len(m.tasks) |-> m.tasks[i].id # id])
        gone == Cardinality({i \in 1..Len(m.tasks) :
                    m.tasks[i].id = id /\ m.tasks[i].status = "completed"})
        m1 == [m EXCEPT !.tasks = kept,
                        !.lsStats.totalTasksCompleted = IF @ >= gone THEN @ - gone ELSE 0]
    IN IF Len(kept) < initialLength
         THEN [m |-> save(m1), result |-> TRUE]
         ELSE [m |-> [m EXCEPT !.tasks = kept], result |-> FALSE]

\* TaskManager.delete(id)
delete(m, id) ==
    LET initialLength == Len(m.tasks)
        kept == Filter(m.tasks, [i \in 1..Len(m.tasks) |-> m.tasks[i].id # id])
        m1 == [m EXCEPT !.tasks = kept]
    IN IF Len(kept) < initialLength
         THEN [m |-> save(m1), result |-> TRUE]
         ELSE [m |-> m1, result |-> FALSE]

\* a plausible slip: a task counts as completed when it has a completedAt
clearCompleted_ByCompletedAt(m) ==
    LET completedCount == Cardinality({i \in 1..Len(m.tasks) : m.tasks[i].completedAt # Null})
        kept == Filter(m.tasks, [i \in 1..Len(m.tasks) |-> m.tasks[i].completedAt = Null])
    IN [m |-> save([m EXCEPT !.tasks = kept]), result |-> completedCount]

\* TaskManager.clearCompleted()
clearCompleted(m) ==
    LET completedCount == Cardinality({i \in 1..Len(m.tasks) : m.tasks[i].status = "completed"})
        kept == Filter(m.tasks, [i \in 1..Len(m.tasks) |-> m.tasks[i].status # "completed"])
    IN [m |-> save([m EXCEPT !.tasks = kept]), result |-> completedCount]

RECURSIVE bulkUpdateFrom(_, _, _, _, _)
\* TaskManager.bulkUpdate(ids, updates): ids.forEach over the same updates object
bulkUpdateFrom(m, ids, updates, t, count) ==
    IF ids = <<>> THEN [m |-> m, result |-> count]
    ELSE LET u == update(m, Head(ids), updates, t)
         IN bulkUpdateFrom(u.m, Tail(ids), u.updates, t,
                           IF u.found THEN count + 1 ELSE count)

bulkUpdate(m, ids, updates, t) == bulkUpdateFrom(m, ids, updates, t, 0)

\* TaskManager.bulkDelete(ids)
bulkDelete(m, ids) ==
    LET initialLength == Len(m.tasks)
        idset == {ids[k] : k \in 1..Len(ids)}
        kept == Filter(m.tasks, [i \in 1..Len(m.tasks) |-> m.tasks[i].id \notin idset])
        m1 == [m EXCEPT !.tasks = kept]
    IN [m |-> IF Len(kept) < initialLength THEN save(m1) ELSE m1,
        result |-> initialLength - Len(kept)]

\* a plausible slip: the imported tasks keep the ids of the payload
importTasks_KeepsPayloadId(m, data, t) ==
    LET newTasks == [k \in 1..Len(data.tasks) |->
                        [data.tasks[k] EXCEPT
                            !.createdAt = IF @ = Null THEN t ELSE @,
                            !.ref = 0]]
        m1 == [m EXCEPT !.tasks = @ \o newTasks, !.idSeq = @ + Len(newTasks)]
    IN [m |-> save(m1), result |-> Len(newTasks), threw |-> FALSE]

\* a plausible slip: imported tasks start as pending, as created tasks do
importTasks_ResetsStatus(m, data, t) ==
    LET newTasks == [k \in 1..Len(data.tasks) |->
                        [data.tasks[k] EXCEPT
                            !.id = generateId(m.idSeq + k - 1),
                            !.status = "pending",
                            !.createdAt = IF @ = Null THEN t ELSE @,
                            !.ref = 0]]
        m1 == [m EXCEPT !.tasks = @ \o newTasks, !.idSeq = @ + Len(newTasks)]
    IN [m |-> save(m1), result |-> Len(newTasks), threw |-> FALSE]

\* TaskManager.import past the validation: data.tasks is an array
importTasks(m, data, t) ==
    LET newTasks == [k \in 1..Len(data.tasks) |->
                        [data.tasks[k] EXCEPT
                            !.id = generateId(m.idSeq + k - 1),
                            !.createdAt = IF @ = Null THEN t ELSE @,
                            !.ref = 0]]
        m1 == [m EXCEPT !.tasks = @ \o newTasks, !.idSeq = @ + Len(newTasks)]
    IN [m |-> save(m1), result |-> Len(newTasks), threw |-> FALSE]

\* a plausible slip: the payload is not validated, a missing or non-array
\* tasks field counts as no tasks
import_NoValidation(m, data, t) == importTasks(m, data, t)

\* TaskManager.import(data) at time t.
\* data.present: data.tasks is truthy; data.isArray: Array.isArray(data.tasks)
import(m, data, t) ==
    IF ~data.present \/ ~data.isArray
      THEN [m |-> m, result |-> 0, threw |-> TRUE]
      ELSE importTasks(m, data, t)

\* TaskManager.export() at time t: the content of the downloaded file,
\* JSON.stringify of {tasks, exportDate, version}
export(ts, t) == [tasks |-> Serialize(ts), exportDate |-> t, version |-> "1.0"]

\* ------------------------------------------------------------------ numbers
\* JavaScript numbers are IEEE 754 doubles: every arithmetic result is rounded
\* to 53 significant bits, ties to even.  A number is [bits, exp]: the bits of
\* a natural number, most significant first, times 2^exp.
Mantissa == 53

\* fraction bits a quotient is developed to before it is rounded
FractionBits == Mantissa + 11

\* the bits without leading zeros
StripZeros(b) ==
    LET ones == {i \in 1..Len(b) : b[i] = 1}
    IN IF ones = {} THEN <<>>
       ELSE SubSeq(b, CHOOSE i \in ones : \A j \in ones : i <= j, Len(b))

RECURSIVE ToNat(_)
\* the natural number a short bit sequence stands for
ToNat(b) == IF b = <<>> THEN 0 ELSE 2 * ToNat(SubSeq(b, 1, Len(b) - 1)) + b[Len(b)]

\* the k bits of the natural number v < 2^k
NatBits(v, k) == [i \in 1..k |-> (v \div 2^(k - i)) % 2]

Zeros(n) == [i \in 1..n |-> 0]

\* the bits plus one: the trailing ones become zeros, the zero before them a one
Increment(b) ==
    LET zeros == {i \in 1..Len(b) : b[i] = 0}
        last == CHOOSE i \in zeros : \A j \in zeros : j <= i
    IN IF zeros = {} THEN <<1>> \o Zeros(Len(b))
       ELSE [i \in 1..Len(b) |-> IF i < last THEN b[i] ELSE IF i = last THEN 1 ELSE 0]

\* round to nearest, ties to even, at Mantissa significant bits; sticky says
\* that the exact value has nonzero bits beyond those given
RoundToDouble(x, sticky) ==
    LET b == StripZeros(x.bits)
        dropped == Len(b) - Mantissa
        keep == SubSeq(b, 1, Mantissa)
        rest == SubSeq(b, Mantissa + 2, Len(b))
        more == sticky \/ (\E i \in 1..Len(rest) : rest[i] = 1)
        up == b[Mantissa + 1] = 1 /\ (more \/ keep[Mantissa] = 1)
    IN IF dropped <= 0 THEN [bits |-> b, exp |-> x.exp]
       ELSE [bits |-> IF up THEN Increment(keep) ELSE keep, exp |-> x.exp + dropped]

\* 2^i modulo d, for i < 90 and d < 2^10
Pow2Mod(i, d) ==
    LET p == (2^30) % d
        high == IF i < 30 THEN 1 ELSE p^(i \div 30)
    IN ((high % d) * ((2^(i % 30)) % d)) % d

\* what is left of r after i fraction bits of r / d, for r < d
DivRem(r, d, i) == (r * Pow2Mod(i, d)) % d

\* the first n fraction bits of r / d, for r < d
DivBits(r, d, n) == [i \in 1..n |-> IF 2 * DivRem(r, d, i - 1) >= d THEN 1 ELSE 0]

\* the double a / b for naturals a <= b, b > 0
Divide(a, b) ==
    RoundToDouble([bits |-> <<a \div b>> \o DivBits(a % b, b, FractionBits),
                   exp |-> 0 - FractionBits],
                  DivRem(a % b, b, FractionBits) # 0)

RECURSIVE TimesHundredFrom(_, _, _, _)
\* long multiplication by 100 over the 11-bit limbs of padded, from limb j
\* (1 is the least significant) with the carry of the limbs before it
TimesHundredFrom(padded, j, carry, acc) ==
    LET limbs == Len(padded) \div 11
        limb == ToNat(SubSeq(padded, (limbs - j) * 11 + 1, (limbs - j + 1) * 11))
        v == limb * 100 + carry
    IN IF j > limbs THEN NatBits(carry, 7) \o acc
       ELSE TimesHundredFrom(padded, j + 1, v \div 2^11, NatBits(v % 2^11, 11) \o acc)

\* the double x * 100
TimesHundred(x) ==
    LET limbs == (Len(x.bits) + 10) \div 11
        padded == Zeros(limbs * 11 - Len(x.bits)) \o x.bits
    IN RoundToDouble([bits |-> TimesHundredFrom(padded, 1, 0, <<>>), exp |-> x.exp], FALSE)

\* Math.round(x) for x >= 0: floor(x + 0.5), computed exactly
MathRound(x) ==
    LET b == IF x.exp >= 0 THEN x.bits \o Zeros(x.exp) ELSE x.bits
        frac == IF x.exp >= 0 THEN 0 ELSE 0 - x.exp
        whole == Len(b) - frac
    IN IF whole < 0 THEN 0
       ELSE ToNat(SubSeq(b, 1, whole)) + (IF frac > 0 THEN b[whole + 1] ELSE 0)

\* ------------------------------------------------------------ computed streak
\* the number of days getStreak looks back over, today included
LookbackDays == 365

\* the filter of getStreak in iteration i: the number of completed tasks whose
\* completedAt starts with the date i days before today
completedBefore(ts, today, i) ==
    Cardinality({k \in 1..Len(ts) :
        /\ ts[k].status = "completed"
        /\ StartsWithDate(ts[k].completedAt, today - i)})

\* a plausible slip: a day without completions ends the walk, today included
getStreak_BreaksOnToday(ts, t) ==
    LET today == DayOf(t)
        iterations == 0..(LookbackDays - 1)
        breaks == {i \in iterations : completedBefore(ts, today, i) = 0}
        ran == IF breaks = {} THEN iterations
               ELSE {i \in iterations : \A j \in breaks : i < j}
    IN Cardinality({i \in ran : completedBefore(ts, today, i) > 0})

\* TaskManager.getStreak() at time t, days taken as UTC calendar days.  The
\* loop runs i = 0, 1, ... and breaks in the first iteration i > 0 that finds
\* no completion; streak counts the iterations before that which found one.
getStreak(ts, t) ==
    LET today == DayOf(t)
        iterations == 0..(LookbackDays - 1)
        breaks == {i \in iterations : i > 0 /\ completedBefore(ts, today, i) = 0}
        ran == IF breaks = {} THEN iterations
               ELSE {i \in iterations : \A j \in breaks : i < j}
    IN Cardinality({i \in ran : completedBefore(ts, today, i) > 0})

\* ------------------------------------------------------- completion statistics
\* TaskManager.getStats()
getStats(ts) ==
    LET count(status) == Cardinality({k \in 1..Len(ts) : ts[k].status = status})
        total == Len(ts)
        completed == count("completed")
    IN [total |-> total,
        completed |-> completed,
        pending |-> count("pending"),
        inProgress |-> count("in-progress"),
        skipped |-> count("skipped"),
        completionRate |-> IF total > 0
                             THEN MathRound(TimesHundred(Divide(completed, total)))
                             ELSE 0]

\* ------------------------------------------------------------ filter and sort
\* TaskManager.filters as the object literal initialises it, and as
\* clearFilters resets it
DefaultFilters == [status |-> "all", category |-> "all", search |-> <<>>, sortBy |-> "newest"]

\* String.prototype.toLowerCase over the letters the inputs use
ToLowerCase(s) ==
    [i \in 1..Len(s) |-> CASE s[i] = "A" -> "a" [] s[i] = "B" -> "b" [] OTHER -> s[i]]

\* String.prototype.includes
Includes(s, sub) ==
    \E i \in 0..(Len(s) - Len(sub)) : SubSeq(s, i + 1, i + Len(sub)) = sub

\* the collation rank of a character: blank, then letters in alphabet order,
\* a lower-case letter before its capital
CharRank(c) ==
    CASE c = " " -> 0 [] c = "a" -> 1 [] c = "A" -> 2 [] c = "b" -> 3 [] c = "B" -> 4
      [] c = "p" -> 5 [] c = "x" -> 6 [] c = "z" -> 7 [] OTHER -> 8

\* String.prototype.localeCompare: negative, zero or positive
localeCompare(s, t) ==
    LET differ == {i \in 1..Len(s) : i > Len(t) \/ s[i] # t[i]}
        first == CHOOSE i \in differ : \A j \in differ : i <= j
    IN IF differ = {}
         THEN (IF Len(s) = Len(t) THEN 0 ELSE -1)
         ELSE IF first > Len(t) THEN 1
         ELSE CharRank(s[first]) - CharRank(t[first])

\* a plausible slip: 'newest' subtracts the dates the other way round
compareFn_OldestFirst(sortBy, a, b) ==
    CASE sortBy = "newest" -> a.createdAt - b.createdAt
      [] sortBy = "deadline" ->
            IF a.deadline = Null THEN 1
            ELSE IF b.deadline = Null THEN -1
            ELSE a.deadline - b.deadline
      [] sortBy = "priority" ->
            LET priorityOrder == [high |-> 0, medium |-> 1, low |-> 2] IN
            IF a.priority \in DOMAIN priorityOrder /\ b.priority \in DOMAIN priorityOrder
              THEN priorityOrder[a.priority] - priorityOrder[b.priority]
              ELSE 0
      [] sortBy = "alphabetical" -> localeCompare(a.title, b.title)

\* the comparator sortTasks hands to Array.prototype.sort in each mode; a NaN
\* result (a priority outside priorityOrder) counts as 0, as sort treats it
compareFn(sortBy, a, b) ==
    CASE sortBy = "newest" -> b.createdAt - a.createdAt
      [] sortBy = "deadline" ->
            IF a.deadline = Null THEN 1
            ELSE IF b.deadline = Null THEN -1
            ELSE a.deadline - b.deadline
      [] sortBy = "priority" ->
            LET priorityOrder == [high |-> 0, medium |-> 1, low |-> 2] IN
            IF a.priority \in DOMAIN priorityOrder /\ b.priority \in DOMAIN priorityOrder
              THEN priorityOrder[a.priority] - priorityOrder[b.priority]
              ELSE 0
      [] sortBy = "alphabetical" -> localeCompare(a.title, b.title)

\* The engines Array.prototype.sort runs on.  Both sort short arrays by
\* insertion and are stable; they differ in the argument order of the calls
\* of the comparator: "itemFirst" asks comparefn(item, placed) < 0,
\* "placedFirst" asks comparefn(placed, item) > 0.  For a consistent
\* comparator the two agree; for any other the order is implementation-defined.
Engines == {"itemFirst", "placedFirst"}

\* does the engine move item to the left of the already placed element
MovesBefore(engine, sortBy, item, placed) ==
    IF engine = "itemFirst"
      THEN compareFn(sortBy, item, placed) < 0
      ELSE compareFn(sortBy, placed, item) > 0

\* one insertion: item walks left from the end of sorted past every element
\* the engine moves it before, and stops at the first it does not
insert(engine, sortBy, sorted, item) ==
    LET n == Len(sorted)
        j == CHOOSE j \in 0..n :
                /\ j = 0 \/ ~MovesBefore(engine, sortBy, item, sorted[j])
                /\ \A k \in (j + 1)..n : MovesBefore(engine, sortBy, item, sorted[k])
    IN SubSeq(sorted, 1, j) \o <<item>> \o SubSeq(sorted, j + 1, n)

RECURSIVE sortFrom(_, _, _, _, _)
sortFrom(engine, sortBy, sorted, ts, i) ==
    IF i > Len(ts) THEN sorted
    ELSE sortFrom(engine, sortBy, insert(engine, sortBy, sorted, ts[i]), ts, i + 1)

\* Array.prototype.sort with the comparator of the mode
arraySort(engine, sortBy, ts) == sortFrom(engine, sortBy, <<>>, ts, 1)

SortModes == {"newest", "deadline", "priority", "alphabetical"}

\* a plausible slip: sort is applied to the array passed in, not to a copy
sortTasks_InPlace(engine, ts, sortBy) ==
    LET sorted == IF sortBy \in SortModes THEN arraySort(engine, sortBy, ts) ELSE ts
    IN [arg |-> sorted, result |-> sorted]

\* TaskManager.sortTasks(tasks, sortBy) on the given engine: arg is the array
\* that was passed in as it is after the call, result the returned array
sortTasks(engine, ts, sortBy) ==
    LET sorted == ts
    IN [arg |-> ts,
        result |-> IF sortBy \in SortModes THEN arraySort(engine, sortBy, sorted) ELSE sorted]

\* TaskManager.getFiltered() on the given engine: this.tasks and this.filters
\* as they are after the call, and the returned array
getFiltered(engine, ts, f) ==
    LET byStatus(t) == t.status = f.status
        byCategory(t) == t.category = f.category
        searchLower == ToLowerCase(f.search)
        bySearch(t) == \/ Includes(ToLowerCase(t.title), searchLower)
                       \/ (t.description # <<>> /\ Includes(ToLowerCase(t.description), searchLower))
        r0 == ts
        r1 == IF f.status # "all" THEN SelectSeq(r0, byStatus) ELSE r0
        r2 == IF f.category # "all" THEN SelectSeq(r1, byCategory) ELSE r1
        r3 == IF f.search # <<>> THEN SelectSeq(r2, bySearch) ELSE r2
    IN [tasks |-> ts, filters |-> f, result |-> sortTasks(engine, r3, f.sortBy).result]

\* TaskManager.setFilter(key, value)
setFilter(f, key, value) == [f EXCEPT ![key] = value]

\* TaskManager.clearFilters()
clearFilters(f) == DefaultFilters

\* ------------------------------------------------------------ load and migrate
\* String(id) for an id that is a number or a string
StringOf(id) == IF id < 0 THEN 0 - id ELSE id

\* a plausible slip: the migration pass runs whether or not a task needs it
migrateOldData_Always(m, t) ==
    LET ts == m.tasks
        missing(i) == Cardinality({j \in 1..(i - 1) : ts[j].id = 0})
        migrated == [i \in 1..Len(ts) |->
                        [ts[i] EXCEPT
                            !.id = IF @ # 0 THEN StringOf(@) ELSE generateId(m.idSeq + missing(i)),
                            !.priority = OrElse(@, "medium"),
                            !.createdAt = IF @ # Null THEN @ ELSE t,
                            !.ref = 0]]
    IN save([m EXCEPT !.tasks = migrated, !.idSeq = @ + missing(Len(ts) + 1)])

\* a plausible slip: the migrated tasks are not written back
migrateOldData_NoSave(m, t) ==
    LET ts == m.tasks
        needsMigration == \E i \in 1..Len(ts) : ts[i].id = 0 \/ ts[i].id < 0
        missing(i) == Cardinality({j \in 1..(i - 1) : ts[j].id = 0})
        migrated == [i \in 1..Len(ts) |->
                        [ts[i] EXCEPT
                            !.id = IF @ # 0 THEN StringOf(@) ELSE generateId(m.idSeq + missing(i)),
                            !.priority = OrElse(@, "medium"),
                            !.createdAt = IF @ # Null THEN @ ELSE t,
                            !.ref = 0]]
    IN IF needsMigration
         THEN [m EXCEPT !.tasks = migrated, !.idSeq = @ + missing(Len(ts) + 1)]
         ELSE m

\* TaskManager.migrateOldData() at time t
migrateOldData(m, t) ==
    LET ts == m.tasks
        needsMigration == \E i \in 1..Len(ts) : ts[i].id = 0 \/ ts[i].id < 0
        missing(i) == Cardinality({j \in 1..(i - 1) : ts[j].id = 0})
        migrated == [i \in 1..Len(ts) |->
                        [ts[i] EXCEPT
                            !.id = IF @ # 0 THEN StringOf(@) ELSE generateId(m.idSeq + missing(i)),
                            !.priority = OrElse(@, "medium"),
                            !.createdAt = IF @ # Null THEN @ ELSE t,
                            !.ref = 0]]
    IN IF needsMigration
         THEN save([m EXCEPT !.tasks = migrated, !.idSeq = @ + missing(Len(ts) + 1)])
         ELSE m

\* Storage.getTasks(): JSON.parse of the stored array, [] when nothing is stored
getTasks(m) == Serialize(m.lsTasks)

\* TaskManager.init() at time t
init(m, t) == migrateOldData([m EXCEPT !.tasks = getTasks(m)], t)

\* -------------------------------------------------------------------- timer
\* The part of the program state the Timer methods read and write: the fields
\* of the Timer object, the number of intervals the browser has scheduled, and
\* the stored timer state.  interval is "null" before the first start, "live"
\* while the interval of the last setInterval is scheduled, "cleared" after
\* clearInterval.
TimerMem(tm, n, st, full) ==
    [timeLeft |-> tm.timeLeft, totalTime |-> tm.totalTime, isRunning |-> tm.isRunning,
     interval |-> tm.interval, mode |-> tm.mode,
     scheduled |-> n, stored |-> st, full |-> full]

\* the fields of the Timer object in a memory record
TimerOf(w) ==
    [timeLeft |-> w.timeLeft, totalTime |-> w.totalTime, isRunning |-> w.isRunning,
     interval |-> w.interval, mode |-> w.mode]

\* Timer.modes: minutes per mode
modes == [work |-> 25, shortBreak |-> 5, longBreak |-> 15]

\* the Timer object literal: 25 * 60 seconds, not running, mode 'work'
Timer ==
    [timeLeft |-> modes.work * SecondsPerMinute, totalTime |-> modes.work * SecondsPerMinute,
     isRunning |-> FALSE, interval |-> "null", mode |-> "work"]

\* nothing stored under the timer key
NoState == [present |-> FALSE]

TimerInit ==
    /\ timer = Timer
    /\ scheduled = 0
    /\ lsTimer = NoState

\* Timer.saveState(): Storage.saveTimerState({timeLeft, totalTime, isRunning,
\* mode, timestamp}); the timestamp is read back as the elapsed time at loadState
saveState(w) ==
    IF w.full THEN w
    ELSE [w EXCEPT !.stored = [present |-> TRUE, timeLeft |-> w.timeLeft,
                               totalTime |-> w.totalTime, isRunning |-> w.isRunning,
                               mode |-> w.mode]]

\* setInterval(() => this.tick(), 1000), its handle assigned to this.interval
setInterval(w) == [w EXCEPT !.scheduled = @ + 1, !.interval = "live"]

\* clearInterval(this.interval)
clearInterval(w) ==
    IF w.interval = "live" THEN [w EXCEPT !.scheduled = @ - 1, !.interval = "cleared"]
    ELSE w

\* a plausible slip: start does not look at isRunning
start_Always(w) == setInterval(saveState([w EXCEPT !.isRunning = TRUE]))

\* Timer.start()
start(w) ==
    IF w.isRunning THEN w
    ELSE setInterval(saveState([w EXCEPT !.isRunning = TRUE]))

\* Timer.pause()
pause(w) ==
    IF ~w.isRunning THEN w
    ELSE saveState(clearInterval([w EXCEPT !.isRunning = FALSE]))

\* Timer.reset()
reset(w) ==
    LET w1 == pause(w)
    IN saveState([w1 EXCEPT !.timeLeft = w1.totalTime])

\* Timer.setMode(minutes)
setMode(w, minutes) ==
    LET w1 == pause(w)
        mode == CASE minutes = 25 -> "work"
                  [] minutes = 5 -> "shortBreak"
                  [] minutes = 15 -> "longBreak"
                  [] OTHER -> w1.mode
    IN saveState([w1 EXCEPT !.mode = mode,
                            !.totalTime = minutes * SecondsPerMinute,
                            !.timeLeft = minutes * SecondsPerMinute])

\* Timer.complete(): pause, notify, back to the work mode
complete(w) == setMode(pause(w), 25)

\* Timer.tick()
tick(w) ==
    LET w1 == [w EXCEPT !.timeLeft = @ - 1]
    IN IF w1.timeLeft <= 0 THEN complete(w1) ELSE w1

\* Timer.loadState(); elapsed = Math.floor((Date.now() - state.timestamp) / 1000)
loadState(w, elapsed) ==
    LET state == w.stored IN
    IF ~state.present THEN w
    ELSE IF state.isRunning /\ elapsed > 0
      THEN LET left == IF state.timeLeft - elapsed > 0 THEN state.timeLeft - elapsed ELSE 0
               w1 == [w EXCEPT !.timeLeft = left, !.totalTime = state.totalTime,
                               !.mode = state.mode]
           IN IF w1.timeLeft > 0 THEN start(w1) ELSE complete(w1)
      ELSE [w EXCEPT !.timeLeft = state.timeLeft, !.totalTime = state.totalTime,
                     !.mode = state.mode]

\* the beforeunload and visibilitychange listeners: saveState while running
saveIfRunning(w) == IF w.isRunning THEN saveState(w) ELSE w

\* Timer.init() in a newly loaded page: the Timer object is the literal again
\* and the intervals of the page before are gone
initTimer(w, elapsed) ==
    loadState(TimerMem(Timer, 0, w.stored, w.full), elapsed)

\* ------------------------------------------------------------------- inputs
IdsOf(ts) == {ts[i].id : i \in 1..Len(ts)}

\* ids no task ever has
AbsentIds == {7}

\* what callers pass to create: the demo task that carries status/completedAt
\* and leaves the selects empty, and the add-task form with a title of blanks
CreateInputs ==
    { [title |-> <<" ", "a">>, description |-> <<>>, category |-> "", priority |-> "",
       deadline |-> Null, status |-> "completed", completedAt |-> 0],
      [title |-> <<" ">>, description |-> <<"x", " ">>, category |-> "work",
       priority |-> "high", deadline |-> 1, status |-> "", completedAt |-> Null] }

\* what callers pass to update: a status change, a title-only edit, the edit
\* form, and patches that name the fields the repository itself maintains
Patches(ts) ==
    { [status |-> s] : s \in {"pending", "completed"} }
    \cup { [title |-> <<"a">>] }
    \cup { [title |-> <<"a">>, description |-> <<>>, category |-> "work",
            priority |-> "high", deadline |-> 1, status |-> "in-progress"] }
    \cup { [id |-> i] : i \in IdsOf(ts) }
    \cup { [createdAt |-> 0], [completedAt |-> 0] }

BulkPatches == { [status |-> "completed"], [title |-> <<"a">>] }

PayloadTask(id, status, createdAt, completedAt) ==
    [id |-> id, title |-> <<"p">>, description |-> <<>>, category |-> "personal",
     priority |-> "medium", deadline |-> Null, status |-> status,
     createdAt |-> createdAt, completedAt |-> completedAt, ref |-> 0]

\* what callers pass to import: no tasks field, a tasks field that is no array,
\* an empty array, a file exported earlier whose task still has the id of a
\* task in the collection, and hand-written tasks
Payloads(ts) ==
    { [present |-> FALSE, isArray |-> FALSE, tasks |-> <<>>],
      [present |-> TRUE, isArray |-> FALSE, tasks |-> <<>>],
      [present |-> TRUE, isArray |-> TRUE, tasks |-> <<>>],
      [present |-> TRUE, isArray |-> TRUE,
       tasks |-> <<PayloadTask(5, "completed", Null, Null), PayloadTask(5, "pending", 0, Null)>>] }
    \cup { [present |-> TRUE, isArray |-> TRUE,
            tasks |-> <<PayloadTask(IF ts = <<>> THEN 5 ELSE ts[1].id, "completed", 0, 0)>>] }

\* what the toolbar passes to setFilter: a status, a category, a search text
\* in capitals, and the sort modes, one of them unknown to sortTasks
FilterInputs ==
    { [key |-> "status", value |-> "completed"],
      [key |-> "category", value |-> "work"],
      [key |-> "search", value |-> <<"A">>] }
    \cup { [key |-> "sortBy", value |-> v] : v \in {"deadline", "priority", "alphabetical", "custom"} }

\* tasks of an imported file that differ in what the sort modes and filters
\* look at, with ties in every sort key
SortTask(title, deadline) ==
    [id |-> 5, title |-> title, description |-> <<>>,
     category |-> IF title = <<"a">> THEN "work" ELSE "study",
     priority |-> CASE deadline = Null -> "low" [] deadline = 0 -> "high" [] OTHER -> "medium",
     deadline |-> deadline,
     status |-> IF deadline = Null THEN "completed" ELSE "pending",
     createdAt |-> IF title = <<"a">> THEN 0 ELSE 1,
     completedAt |-> IF deadline = Null THEN 0 ELSE Null,
     ref |-> 0]

SortPool == { SortTask(title, deadline) : title \in {<<"a">>, <<"b">>}, deadline \in {Null, 0, 1} }

QueryPayloads ==
    { [present |-> TRUE, isArray |-> TRUE, tasks |-> <<x, y>>] : x, y \in SortPool }

\* a task of an imported file: completed on the given day, or pending
HistoryTask(day) ==
    [id |-> 5, title |-> <<"p">>, description |-> <<>>, category |-> "study",
     priority |-> "medium", deadline |-> Null,
     status |-> IF day = Null THEN "pending" ELSE "completed",
     createdAt |-> 0,
     completedAt |-> IF day = Null THEN Null ELSE day * TicksPerDay + 1,
     ref |-> 0]

\* files exported up to time t: two tasks, completed on days up to today
HistoryPayloads(t) ==
    { [present |-> TRUE, isArray |-> TRUE, tasks |-> <<HistoryTask(d1), HistoryTask(d2)>>] :
        d1 \in 0..DayOf(t), d2 \in (0..DayOf(t)) \cup {Null} }

\* records an older version of the application stored: the id missing (and
\* then createdAt too), a number or a string, with or without priority
LegacyRecord(id, priority, createdAt) ==
    [id |-> id, title |-> <<"p">>, description |-> <<>>, category |-> "study",
     priority |-> priority, deadline |-> Null, status |-> "pending",
     createdAt |-> createdAt, completedAt |-> Null, ref |-> 0]

LegacyPool ==
    { LegacyRecord(id, priority, IF id = 0 THEN Null ELSE 0) :
        id \in {0, -3, 3}, priority \in {"", "high"} }

\* the arrays that can be in the store when the application starts
StoredArrays ==
    UNION { [1..n -> LegacyPool] : n \in 0..MaxTasks }

\* -------------------------------------------------------------- the machine
Cur == Mem(tasks, lsTasks, lsStats, quotaFull, idSeq)

Commit(m) ==
    /\ calls < MaxCalls
    /\ calls' = calls + 1
    /\ tasks' = m.tasks
    /\ lsTasks' = m.lsTasks
    /\ lsStats' = m.lsStats
    /\ idSeq' = m.idSeq

Init ==
    /\ tasks = <<>>
    /\ lsTasks = <<>>
    /\ lsStats = DefaultStats
    /\ now = 0
    /\ quotaFull = FALSE
    /\ ret = [op |-> "none"]
    /\ calls = 0
    /\ idSeq = 0
    /\ view = <<>>
    /\ filters = DefaultFilters
    /\ TimerInit

\* time passes
Advance ==
    /\ now < MaxNow
    /\ now' = now + 1
    /\ UNCHANGED <<tasks, lsTasks, lsStats, quotaFull, timer, scheduled, lsTimer, ret, calls, idSeq, view, filters>>

Create ==
    \E taskData \in CreateInputs :
        LET c == create(Cur, taskData, now) IN
        /\ Len(tasks) < MaxTasks
        /\ Commit(c.m)
        /\ ret' = [op |-> "create", arg |-> taskData, task |-> c.task,
                   threw |-> c.threw, wrote |-> c.m.wrote]
        /\ UNCHANGED <<now, quotaFull, timer, scheduled, lsTimer, view, filters>>

Update ==
    \E id \in IdsOf(tasks) \cup AbsentIds, updates \in Patches(tasks) :
        LET u == update(Cur, id, updates, now) IN
        /\ Commit(u.m)
        /\ ret' = [op |-> "update", id |-> id, arg |-> updates, task |-> u.task,
                   found |-> u.found, wrote |-> u.m.wrote]
        /\ UNCHANGED <<now, quotaFull, timer, scheduled, lsTimer, view, filters>>

Delete ==
    \E id \in IdsOf(tasks) \cup AbsentIds :
        LET d == delete(Cur, id) IN
        /\ Commit(d.m)
        /\ ret' = [op |-> "delete", id |-> id, result |-> d.result, wrote |-> d.m.wrote]
        /\ UNCHANGED <<now, quotaFull, timer, scheduled, lsTimer, view, filters>>

BulkUpdate ==
    \E i1, i2 \in IdsOf(tasks) \cup AbsentIds, updates \in BulkPatches :
        LET b == bulkUpdate(Cur, <<i1, i2>>, updates, now) IN
        /\ i1 # i2
        /\ Commit(b.m)
        /\ ret' = [op |-> "bulkUpdate", ids |-> <<i1, i2>>, arg |-> updates,
                   result |-> b.result, wrote |-> b.m.wrote]
        /\ UNCHANGED <<now, quotaFull, timer, scheduled, lsTimer, view, filters>>

BulkDelete ==
    \E i1, i2 \in IdsOf(tasks) \cup AbsentIds :
        LET b == bulkDelete(Cur, <<i1, i2>>) IN
        /\ i1 # i2
        /\ Commit(b.m)
        /\ ret' = [op |-> "bulkDelete", ids |-> <<i1, i2>>, result |-> b.result,
                   wrote |-> b.m.wrote]
        /\ UNCHANGED <<now, quotaFull, timer, scheduled, lsTimer, view, filters>>

ClearCompleted ==
    LET c == clearCompleted(Cur) IN
    /\ Commit(c.m)
    /\ ret' = [op |-> "clearCompleted", result |-> c.result, wrote |-> c.m.wrote]
    /\ UNCHANGED <<now, quotaFull, timer, scheduled, lsTimer, view, filters>>

Import ==
    \E data \in Payloads(tasks) :
        LET i == import(Cur, data, now) IN
        /\ Len(tasks) + Len(data.tasks) <= MaxTasks
        /\ Commit(i.m)
        /\ ret' = [op |-> "import", arg |-> data, result |-> i.result,
                   threw |-> i.threw, wrote |-> i.m.wrote]
        /\ UNCHANGED <<now, quotaFull, timer, scheduled, lsTimer, view, filters>>

Next ==
    \/ Advance
    \/ Create
    \/ Update
    \/ Delete
    \/ BulkUpdate
    \/ BulkDelete
    \/ ClearCompleted
    \/ Import

Spec == Init /\ [][Next]_vars

\* ------------------------------------------------------------ the task list
\* the operations behind the toolbar and the task list, on either engine
Query ==
    /\ calls < MaxCalls
    /\ calls' = calls + 1
    /\ UNCHANGED <<lsTasks, lsStats, now, quotaFull, timer, scheduled, lsTimer, idSeq, view>>

SetFilter ==
    \E i \in FilterInputs :
        /\ Query
        /\ filters' = setFilter(filters, i.key, i.value)
        /\ ret' = [op |-> "setFilter", key |-> i.key, value |-> i.value]
        /\ UNCHANGED tasks

ClearFilters ==
    /\ Query
    /\ filters' = clearFilters(filters)
    /\ ret' = [op |-> "clearFilters"]
    /\ UNCHANGED tasks

GetFiltered ==
    \E engine \in Engines :
        LET g == getFiltered(engine, tasks, filters) IN
        /\ Query
        /\ tasks' = g.tasks
        /\ filters' = g.filters
        /\ ret' = [op |-> "getFiltered", engine |-> engine, filters |-> filters,
                   result |-> g.result]

\* sortTasks called on the collection itself
SortTasks ==
    \E engine \in Engines, sortBy \in SortModes \cup {"custom"} :
        LET s == sortTasks(engine, tasks, sortBy) IN
        /\ Query
        /\ tasks' = s.arg
        /\ ret' = [op |-> "sortTasks", engine |-> engine, sortBy |-> sortBy,
                   arg |-> tasks, result |-> s.result]
        /\ UNCHANGED filters

ImportFile ==
    \E data \in QueryPayloads :
        LET i == import(Cur, data, now) IN
        /\ Len(tasks) + Len(data.tasks) <= MaxTasks
        /\ Commit(i.m)
        /\ ret' = [op |-> "import", arg |-> data, result |-> i.result,
                   threw |-> i.threw, wrote |-> i.m.wrote]
        /\ UNCHANGED <<now, quotaFull, timer, scheduled, lsTimer, view, filters>>

NextQuery ==
    \/ Advance
    \/ Create
    \/ ImportFile
    \/ SetFilter
    \/ ClearFilters
    \/ GetFiltered
    \/ SortTasks

SpecQuery == Init /\ [][NextQuery]_vars

\* ------------------------------------------------------------------ streaks
\* days pass: the clock moves to the start of a later day
AdvanceDay ==
    \E d \in 1..(MaxDay - DayOf(now)) :
        /\ now' = (DayOf(now) + d) * TicksPerDay
        /\ UNCHANGED <<tasks, lsTasks, lsStats, quotaFull, timer, scheduled, lsTimer, ret, calls, idSeq, view, filters>>

ImportHistory ==
    \E data \in HistoryPayloads(now) :
        LET i == import(Cur, data, now) IN
        /\ Len(tasks) + Len(data.tasks) <= MaxTasks
        /\ Commit(i.m)
        /\ ret' = [op |-> "import", arg |-> data, result |-> i.result,
                   threw |-> i.threw, wrote |-> i.m.wrote]
        /\ UNCHANGED <<now, quotaFull, timer, scheduled, lsTimer, view, filters>>

GetStreak ==
    /\ Query
    /\ ret' = [op |-> "getStreak", at |-> now, result |-> getStreak(tasks, now)]
    /\ UNCHANGED <<tasks, filters>>

\* the status select and the complete button of a task card
ChangeStatus ==
    \E id \in IdsOf(tasks), status \in {"pending", "completed"} :
        LET updates == [status |-> status]
            u == update(Cur, id, updates, now)
        IN /\ Commit(u.m)
           /\ ret' = [op |-> "update", id |-> id, arg |-> updates, task |-> u.task,
                      found |-> u.found, wrote |-> u.m.wrote]
           /\ UNCHANGED <<now, quotaFull, timer, scheduled, lsTimer, view, filters>>

NextStreak ==
    \/ AdvanceDay
    \/ Create
    \/ ChangeStatus
    \/ ImportHistory
    \/ GetStreak

SpecStreak == Init /\ [][NextStreak]_vars

\* ------------------------------------------------------------- the dashboard
\* a stored collection of n tasks, the first c of them completed
Collection(n, c) ==
    [k \in 1..n |->
        [id |-> generateId(k - 1), title |-> <<"p">>, description |-> <<>>,
         category |-> "study", priority |-> "medium", deadline |-> Null,
         status |-> IF k <= c THEN "completed" ELSE "pending",
         createdAt |-> 0, completedAt |-> IF k <= c THEN 0 ELSE Null, ref |-> 0]]

\* the state after a file of up to MaxStored tasks was imported
InitStats ==
    /\ \E n \in 0..MaxStored, c \in 0..MaxStored : c <= n /\ tasks = Collection(n, c)
    /\ lsTasks = Serialize(tasks)
    /\ lsStats = DefaultStats
    /\ now = 0
    /\ quotaFull = FALSE
    /\ ret = [op |-> "none"]
    /\ calls = 0
    /\ idSeq = Len(tasks)
    /\ view = <<>>
    /\ filters = DefaultFilters
    /\ TimerInit

GetStats ==
    /\ Query
    /\ ret' = [op |-> "getStats", result |-> getStats(tasks)]
    /\ UNCHANGED <<tasks, filters>>

NextStats == GetStats

SpecStats == InitStats /\ [][NextStats]_vars

\* ------------------------------------------------------------------ start-up
\* the page is opened on a store an older version wrote; nothing is loaded yet
InitLoad ==
    /\ tasks = <<>>
    /\ lsTasks \in StoredArrays
    /\ lsStats = DefaultStats
    /\ now = 0
    /\ quotaFull = FALSE
    /\ ret = [op |-> "none"]
    /\ calls = 0
    /\ idSeq = 0
    /\ view = <<>>
    /\ filters = DefaultFilters
    /\ TimerInit

\* TaskManager.init(), at start-up and again after a restore
Load ==
    LET l == init(Cur, now) IN
    /\ Commit(l)
    /\ ret' = [op |-> "init", stored |-> lsTasks, wrote |-> l.wrote]
    /\ UNCHANGED <<now, quotaFull, timer, scheduled, lsTimer, view, filters>>

\* the application is started: init has run
Loaded == ret.op # "none"

\* the migration pass run once more
Migrate ==
    LET g == migrateOldData(Cur, now) IN
    /\ Loaded
    /\ Commit(g)
    /\ ret' = [op |-> "migrateOldData", wrote |-> g.wrote]
    /\ UNCHANGED <<now, quotaFull, timer, scheduled, lsTimer, view, filters>>

NextLoad ==
    \/ Advance
    \/ Load
    \/ Migrate

SpecLoad == InitLoad /\ [][NextLoad]_vars

\* ------------------------------------------------------------- a full store
\* the quota of the store is used up: from now on setItem throws
StoreFills ==
    /\ ~quotaFull
    /\ quotaFull' = TRUE
    /\ UNCHANGED <<tasks, lsTasks, lsStats, now, ret, calls, idSeq, view, filters, timer, scheduled, lsTimer>>

\* the user frees space in the store
StoreFrees ==
    /\ quotaFull
    /\ quotaFull' = FALSE
    /\ UNCHANGED <<tasks, lsTasks, lsStats, now, ret, calls, idSeq, view, filters, timer, scheduled, lsTimer>>

NextQuota ==
    \/ StoreFills
    \/ StoreFrees
    \/ Create
    \/ Update
    \/ Delete
    \/ ClearCompleted
    \/ Import

SpecQuota == Init /\ [][NextQuota]_vars

\* ------------------------------------------------------ a session on a store
\* what the store holds when the page opens: nothing, a record without id, a
\* record with a number id, a record without id beside a current one
StoredSamples ==
    { <<>>,
      <<LegacyRecord(0, "", Null)>>,
      <<LegacyRecord(-3, "high", 0)>>,
      <<LegacyRecord(0, "high", Null), LegacyRecord(3, "", 0)>> }

InitStore ==
    /\ tasks = <<>>
    /\ lsTasks \in StoredSamples
    /\ lsStats = DefaultStats
    /\ now = 0
    /\ quotaFull = FALSE
    /\ ret = [op |-> "none"]
    /\ calls = 0
    /\ idSeq = 0
    /\ view = <<>>
    /\ filters = DefaultFilters
    /\ TimerInit

\* App.init calls TaskManager.init() before any handler can run; the import
\* dialog calls it again later
NextStore ==
    \/ Load
    \/ Loaded /\ Create
    \/ Loaded /\ Update
    \/ Loaded /\ Delete
    \/ Loaded /\ BulkUpdate
    \/ Loaded /\ BulkDelete
    \/ Loaded /\ ClearCompleted
    \/ Loaded /\ Import

SpecStore == InitStore /\ [][NextStore]_vars

\* ---------------------------------------------------------- the focus timer
CurTimer == TimerMem(timer, scheduled, lsTimer, quotaFull)

CommitTimer(w) ==
    /\ timer' = TimerOf(w)
    /\ scheduled' = w.scheduled
    /\ lsTimer' = w.stored
    /\ UNCHANGED <<tasks, lsTasks, lsStats, now, quotaFull, calls, idSeq, view, filters>>

\* what the mode buttons pass to setMode: parseInt(dataset.time)
ModeMinutes == {5, 15, 25}

\* seconds a page can have been away when it is loaded again: within the same
\* second, one second, longer than any countdown
Elapsed == {0, 1, modes.work * SecondsPerMinute}

\* click on #timerStart
Start ==
    /\ CommitTimer(start(CurTimer))
    /\ ret' = [op |-> "start"]

\* click on #timerPause
Pause ==
    /\ CommitTimer(pause(CurTimer))
    /\ ret' = [op |-> "pause"]

\* click on #timerReset
Reset ==
    /\ CommitTimer(reset(CurTimer))
    /\ ret' = [op |-> "reset"]

\* click on a .timer-mode button
SetMode ==
    \E minutes \in ModeMinutes :
        /\ CommitTimer(setMode(CurTimer, minutes))
        /\ ret' = [op |-> "setMode", arg |-> minutes]

\* a scheduled interval fires and calls Timer.tick()
Tick ==
    /\ scheduled > 0
    /\ CommitTimer(tick(CurTimer))
    /\ ret' = [op |-> "tick"]

\* the page is hidden: the visibilitychange listener
Hide ==
    /\ CommitTimer(saveIfRunning(CurTimer))
    /\ ret' = [op |-> "visibilitychange"]

\* the page is left and opened again: the beforeunload listener, then
\* Timer.init() on the new page
PageLoad ==
    \E elapsed \in Elapsed :
        /\ CommitTimer(initTimer(saveIfRunning(CurTimer), elapsed))
        /\ ret' = [op |-> "loadState", elapsed |-> elapsed]

NextTimer ==
    \/ Start
    \/ Pause
    \/ Reset
    \/ SetMode
    \/ Tick
    \/ Hide
    \/ PageLoad

SpecTimer == Init /\ [][NextTimer]_vars

\* a scheduled interval keeps firing: setInterval calls tick every second
SpecTimerFair == SpecTimer /\ WF_vars(Tick)

\* ------------------------------------------------- callers holding references
\* TaskManager.getAll(): [...this.tasks], a new array of the SAME task objects;
\* element i of the returned array is reference number i
getAll(ts) == [i \in 1..Len(ts) |-> i]

\* the task objects once the caller holds the array getAll returned
Shared(ts) == [i \in 1..Len(ts) |-> [ts[i] EXCEPT !.ref = i]]

\* TaskManager.getById(id): the task object itself, or null
getById(ts, id) == IF findIndex(ts, id) = 0 THEN <<>> ELSE <<1>>

\* the task objects once the caller holds what getById returned
SharedOne(ts, id) ==
    [i \in 1..Len(ts) |-> [ts[i] EXCEPT !.ref = IF i = findIndex(ts, id) THEN 1 ELSE 0]]

\* what a caller assigns to a field of a task object it holds
CallerWrites == { [title |-> <<"z">>], [status |-> "completed"] }

\* obj.field = value through reference r: the object is changed in place
WriteThrough(ts, r, u) ==
    [i \in 1..Len(ts) |->
        IF r # 0 /\ ts[i].ref = r
          THEN [f \in DOMAIN ts[i] |-> IF f \in DOMAIN u THEN u[f] ELSE ts[i][f]]
          ELSE ts[i]]

GetAll ==
    /\ calls < MaxCalls
    /\ calls' = calls + 1
    /\ view' = getAll(tasks)
    /\ tasks' = Shared(tasks)
    /\ ret' = [op |-> "getAll"]
    /\ UNCHANGED <<lsTasks, lsStats, now, quotaFull, timer, scheduled, lsTimer, idSeq, filters>>

GetById ==
    \E id \in IdsOf(tasks) \cup AbsentIds :
        /\ calls < MaxCalls
        /\ calls' = calls + 1
        /\ view' = getById(tasks, id)
        /\ tasks' = SharedOne(tasks, id)
        /\ ret' = [op |-> "getById", id |-> id]
        /\ UNCHANGED <<lsTasks, lsStats, now, quotaFull, timer, scheduled, lsTimer, idSeq, filters>>

\* the caller assigns to a field of an element of the returned array
CallerSetField ==
    \E k \in 1..Len(view), u \in CallerWrites :
        /\ tasks' = WriteThrough(tasks, view[k], u)
        /\ ret' = [op |-> "callerSetField", k |-> k, arg |-> u]
        /\ UNCHANGED <<lsTasks, lsStats, now, quotaFull, timer, scheduled, lsTimer, calls, idSeq, view, filters>>

\* the caller pushes an object of its own onto the returned array
CallerPush ==
    /\ Len(view) <= MaxTasks
    /\ view' = Append(view, 0)
    /\ ret' = [op |-> "callerPush"]
    /\ UNCHANGED <<tasks, lsTasks, lsStats, now, quotaFull, timer, scheduled, lsTimer, calls, idSeq, filters>>

\* the caller removes element k of the returned array
CallerSplice ==
    \E k \in 1..Len(view) :
        /\ view' = SubSeq(view, 1, k - 1) \o SubSeq(view, k + 1, Len(view))
        /\ ret' = [op |-> "callerSplice", k |-> k]
        /\ UNCHANGED <<tasks, lsTasks, lsStats, now, quotaFull, timer, scheduled, lsTimer, calls, idSeq, filters>>

NextAlias ==
    \/ Create
    \/ Update
    \/ Delete
    \/ GetAll
    \/ GetById
    \/ CallerSetField
    \/ CallerPush
    \/ CallerSplice

\* the repository used by callers that keep what getAll and getById return
SpecAlias == Init /\ [][NextAlias]_vars

\* ------------------------------------------------------------------- claims
RemoveAt(ts, i) == SubSeq(ts, 1, i - 1) \o SubSeq(ts, i + 1, Len(ts))

CompletedOn(ts, day) ==
    Cardinality({i \in 1..Len(ts) :
        ts[i].status = "completed" /\ StartsWithDate(ts[i].completedAt, day)})

\* the step is a call of the repository operation op
Called(op) == calls' = calls + 1 /\ ret'.op = op

\* C1: in every reachable state every task has completedAt non-null exactly
\* when its status is 'completed'.
C1_CompletedAtIffCompleted ==
    \A i \in 1..Len(tasks) :
        (tasks[i].completedAt # Null) <=> (tasks[i].status = "completed")

\* C2: in every reachable state no two tasks of the collection have the same id.
C2_UniqueIds ==
    \A i, j \in 1..Len(tasks) : i # j => tasks[i].id # tasks[j].id

\* C3: update and bulkUpdate, whatever the patch, leave the createdAt of every
\* task as it was.
C3_CreatedAtImmutable ==
    [][(Called("update") \/ Called("bulkUpdate")) =>
          \A i \in 1..Len(tasks) : tasks'[i].createdAt = tasks[i].createdAt]_vars

\* C4: create appends exactly one task, pending and with completedAt null
\* whatever status or completedAt the input carries, category and priority
\* defaulting to 'study' and 'medium'; the tasks that were there are unchanged.
C4_CreateAppendsPending ==
    [][Called("create") =>
          /\ Len(tasks') = Len(tasks) + 1
          /\ SubSeq(tasks', 1, Len(tasks)) = tasks
          /\ LET new == tasks'[Len(tasks')] IN
             /\ new = ret'.task
             /\ new.status = "pending"
             /\ new.completedAt = Null
             /\ new.category = (IF ret'.arg.category = "" THEN "study" ELSE ret'.arg.category)
             /\ new.priority = (IF ret'.arg.priority = "" THEN "medium" ELSE ret'.arg.priority)]_vars

\* C4 witness: a second task was created from an input that carries status
\* 'completed' and no category, and it is pending in the 'study' category.
C4_Witness ==
    /\ ret.op = "create"
    /\ ret.arg.status = "completed"
    /\ ret.arg.category = ""
    /\ Len(tasks) = 2
    /\ tasks[2].status = "pending"
    /\ tasks[2].category = "study"

\* the call of update that moves a task into 'completed'
CompletesTask(r, ts) ==
    /\ Called("update")
    /\ r.found
    /\ "status" \in DOMAIN r.arg
    /\ r.arg.status = "completed"
    /\ ts[findIndex(ts, r.id)].status # "completed"

\* C5: update with status 'completed' on a task that was not completed sets its
\* completedAt, adds exactly 1 to totalTasksCompleted, writes today's
\* dailyStats.completed and runs the streak update; the returned task is completed.
C5_UpdateToCompleted ==
    [][CompletesTask(ret', tasks) =>
          LET i == findIndex(tasks, ret'.id)
              today == getTodayString(now)
          IN /\ tasks'[i].completedAt = now
             /\ tasks'[i].completedAt # Null
             /\ ret'.task = tasks'[i]
             /\ ret'.task.status = "completed"
             /\ lsStats'.totalTasksCompleted = lsStats.totalTasksCompleted + 1
             /\ lsStats'.totalTasksCreated = lsStats.totalTasksCreated
             /\ today \in DOMAIN lsStats'.dailyStats
             /\ lsStats'.dailyStats[today].completed = CompletedOn(lsTasks, today) + 1
             /\ lsStats'.lastActiveDate = today
             /\ lsStats'.currentStreak >= 1
             /\ lsStats'.longestStreak >= lsStats'.currentStreak]_vars

\* C5 witness: a task created the day before has just been completed.
C5_Witness ==
    /\ ret.op = "update"
    /\ ret.found
    /\ ret.arg = [status |-> "completed"]
    /\ ret.task.completedAt = now
    /\ DayOf(ret.task.createdAt) < DayOf(now)
    /\ lsStats.totalTasksCompleted = 1
    /\ lsStats.currentStreak = 2

\* C6: update with an id that is not in the collection returns null and changes
\* neither the collection nor the persisted tasks nor the stats record.
C6_UpdateMissingId ==
    [][Called("update") =>
          /\ ret'.found <=> ret'.id \in IdsOf(tasks)
          /\ ~ret'.found =>
                /\ ret'.task = NoTask
                /\ tasks' = tasks
                /\ lsTasks' = lsTasks
                /\ lsStats' = lsStats
                /\ ret'.wrote = 0]_vars

\* C6 witness: update of a missing id with status 'completed' on a collection
\* that holds a task.
C6_Witness ==
    /\ ret.op = "update"
    /\ ~ret.found
    /\ ret.arg = [status |-> "completed"]
    /\ Len(tasks) > 0
    /\ lsStats.totalTasksCompleted = 0

\* C7: delete returns true exactly when a task with that id was there; then the
\* collection is the prior one without that task and the store is written;
\* otherwise nothing changes and nothing is written.
C7_DeleteRemovesOne ==
    [][Called("delete") =>
          /\ ret'.result <=> ret'.id \in IdsOf(tasks)
          /\ IF ret'.result
               THEN /\ \E i \in 1..Len(tasks) :
                          tasks[i].id = ret'.id /\ tasks' = RemoveAt(tasks, i)
                    /\ ret'.wrote = 1
                    /\ lsTasks' = Serialize(tasks')
               ELSE /\ tasks' = tasks
                    /\ lsTasks' = lsTasks
                    /\ ret'.wrote = 0]_vars

\* C8: create with a title that is empty after trimming fails, adds no task and
\* changes no stats.
C8_CreateRejectsBlankTitle ==
    [][(Called("create") /\ Trim(ret'.arg.title) = <<>>) =>
          /\ ret'.threw
          /\ tasks' = tasks
          /\ lsStats' = lsStats]_vars

\* C8 as amended: create does not validate the title; with a title that is
\* empty after trimming it returns normally, appends a pending task whose title
\* is the empty string and adds 1 to totalTasksCreated.
C8_CreateAcceptsBlankTitle ==
    [][(Called("create") /\ Trim(ret'.arg.title) = <<>>) =>
          /\ ~ret'.threw
          /\ Len(tasks') = Len(tasks) + 1
          /\ tasks'[Len(tasks')].title = <<>>
          /\ tasks'[Len(tasks')].status = "pending"
          /\ lsStats'.totalTasksCreated = lsStats.totalTasksCreated + 1]_vars

\* C8 witness: a task was created from a title of blanks and is in the collection.
C8_Witness ==
    /\ ret.op = "create"
    /\ ret.arg.title = <<" ">>
    /\ tasks[Len(tasks)].title = <<>>
    /\ lsStats.totalTasksCreated >= 1

\* C9: nothing a caller does to what getAll returned (adding or removing
\* elements, assigning to a field of a returned task) changes the collection.
C9_GetAllDefensiveCopy ==
    [][ret'.op \in {"callerSetField", "callerPush", "callerSplice"} =>
          Serialize(tasks') = Serialize(tasks)]_vars

\* C10: import of a payload whose tasks field is missing or no array fails and
\* changes neither the collection nor the persisted tasks.
C10_ImportRejectsInvalid ==
    [][(Called("import") /\ (~ret'.arg.present \/ ~ret'.arg.isArray)) =>
          /\ ret'.threw
          /\ ret'.wrote = 0
          /\ tasks' = tasks
          /\ lsTasks' = lsTasks]_vars

\* C10 witness: an import of a payload whose tasks field is no array has failed
\* on a collection that holds tasks.
C10_Witness ==
    /\ ret.op = "import"
    /\ ret.arg.present
    /\ ~ret.arg.isArray
    /\ ret.threw
    /\ Len(tasks) > 0

\* C11: import of a payload whose tasks field is an array appends one task per
\* entry after the tasks that were there, which stay as they were and in their
\* order; every imported task has an id that no task had before and that no
\* other imported task has, whatever ids the payload carries; the call returns
\* the number of entries.
C11_ImportAppendsFreshIds ==
    [][Called("import") /\ ret'.arg.present /\ ret'.arg.isArray =>
          LET n == Len(ret'.arg.tasks)
              old == Len(tasks)
          IN /\ ~ret'.threw
             /\ Len(tasks') = old + n
             /\ SubSeq(tasks', 1, old) = tasks
             /\ \A k \in 1..n : tasks'[old + k].id \notin IdsOf(tasks)
             /\ \A j, k \in 1..n : j # k => tasks'[old + j].id # tasks'[old + k].id
             /\ ret'.result = n]_vars

\* C11 witness: a payload of two tasks that carry the same id was imported
\* and both imported tasks are in the collection.
C11_Witness ==
    /\ ret.op = "import"
    /\ ~ret.threw
    /\ ret.result = 2
    /\ ret.arg.tasks[1].id = ret.arg.tasks[2].id
    /\ Len(tasks) = 2

\* C12: after an import, an export holds for each imported task a task with
\* the title, description, category, priority, deadline and status of the
\* payload entry, and with an id that is not the payload entry's id.
C12_ImportExportRoundTrip ==
    ret.op = "import" /\ ~ret.threw =>
        LET e == export(tasks, now).tasks
            n == Len(ret.arg.tasks)
            old == Len(e) - n
        IN \A k \in 1..n :
              LET p == ret.arg.tasks[k]
                  x == e[old + k]
              IN /\ x.title = p.title
                 /\ x.description = p.description
                 /\ x.category = p.category
                 /\ x.priority = p.priority
                 /\ x.deadline = p.deadline
                 /\ x.status = p.status
                 /\ x.id # p.id

\* C12 witness: the file exported earlier was imported again, its completed
\* task has the id of a task still in the collection, and the export holds a
\* completed copy of it under another id.
C12_Witness ==
    /\ ret.op = "import"
    /\ ~ret.threw
    /\ Len(ret.arg.tasks) = 1
    /\ Len(tasks) = 2
    /\ ret.arg.tasks[1].id = tasks[1].id
    /\ export(tasks, now).tasks[2].status = "completed"
    /\ export(tasks, now).tasks[2].id # tasks[1].id

\* r holds the tasks of ts, each exactly once
IsPermutationOf(r, ts) ==
    /\ Len(r) = Len(ts)
    /\ \E perm \in Permutations(1..Len(ts)) : r = [i \in 1..Len(ts) |-> ts[perm[i]]]

\* r is in the order of the sort mode: newest first, earliest deadline first
\* with the tasks that have no deadline last, high before medium before low
\* priority, titles in collation order; any other mode is the stored order
InOrderOf(sortBy, r, ts) ==
    CASE sortBy = "newest" ->
            \A i, j \in 1..Len(r) : i < j => r[i].createdAt >= r[j].createdAt
      [] sortBy = "deadline" ->
            \A i, j \in 1..Len(r) : i < j =>
                /\ r[i].deadline = Null => r[j].deadline = Null
                /\ r[i].deadline # Null /\ r[j].deadline # Null => r[i].deadline <= r[j].deadline
      [] sortBy = "priority" ->
            LET rank == [high |-> 0, medium |-> 1, low |-> 2] IN
            \A i, j \in 1..Len(r) : i < j => rank[r[i].priority] <= rank[r[j].priority]
      [] sortBy = "alphabetical" ->
            \A i, j \in 1..Len(r) : i < j => localeCompare(r[i].title, r[j].title) <= 0
      [] OTHER -> r = ts

\* C13: with the filters status 'all', category 'all' and an empty search,
\* getFiltered returns every task of the collection exactly once, in the order
\* of the current sortBy mode.
C13_GetFilteredAllIsSortedPermutation ==
    /\ ret.op = "getFiltered"
    /\ ret.filters.status = "all"
    /\ ret.filters.category = "all"
    /\ ret.filters.search = <<>>
    => /\ IsPermutationOf(ret.result, tasks)
       /\ InOrderOf(ret.filters.sortBy, ret.result, tasks)

\* C13 witness: sorted by deadline with nothing filtered out, getFiltered
\* returned the two tasks in the reverse of their stored order, the first
\* task having no deadline.
C13_Witness ==
    /\ ret.op = "getFiltered"
    /\ ret.filters = [DefaultFilters EXCEPT !.sortBy = "deadline"]
    /\ Len(tasks) = 2
    /\ tasks[1].deadline = Null
    /\ tasks[2].deadline # Null
    /\ ret.result = <<tasks[2], tasks[1]>>

\* C14: getFiltered, sortTasks, setFilter and clearFilters leave the task
\* collection (members, fields, stored order) and the stored tasks and stats
\* as they are, and getFiltered leaves the filter state as it is.
C14_QueriesChangeNothing ==
    [][/\ (\E op \in {"getFiltered", "sortTasks", "setFilter", "clearFilters"} : Called(op))
          => /\ tasks' = tasks
             /\ lsTasks' = lsTasks
             /\ lsStats' = lsStats
       /\ Called("getFiltered") => filters' = filters]_vars

\* C14 witness: with the status filter on 'completed', getFiltered returned
\* one of the two tasks of the collection.
C14_Witness ==
    /\ ret.op = "getFiltered"
    /\ filters.status = "completed"
    /\ Len(tasks) = 2
    /\ Len(ret.result) = 1
    /\ ret.result[1].status = "completed"

\* C15: sortTasks in 'deadline' mode returns the tasks that have a deadline
\* in ascending deadline order, then the tasks that have none, and is stable:
\* two tasks with equal deadlines, and two tasks that both have no deadline,
\* stay in the order they had in the array passed in.
C15_DeadlineSortStable ==
    ret.op = "sortTasks" /\ ret.sortBy = "deadline" =>
        LET n == Len(ret.arg) IN
        /\ Len(ret.result) = n
        /\ \E perm \in Permutations(1..n) :
              /\ ret.result = [i \in 1..n |-> ret.arg[perm[i]]]
              /\ \A i, j \in 1..n : i < j =>
                    LET a == ret.result[i]
                        b == ret.result[j]
                    IN /\ a.deadline = Null => b.deadline = Null
                       /\ a.deadline # Null /\ b.deadline # Null => a.deadline <= b.deadline
                       /\ a.deadline = b.deadline => perm[i] < perm[j]

RECURSIVE updateEach(_, _, _, _, _)
\* update(id, patch) called for each id in order, every call with the patch as
\* the caller wrote it
updateEach(m, ids, updates, t, count) ==
    IF ids = <<>> THEN [m |-> m, result |-> count]
    ELSE LET u == update(m, Head(ids), updates, t)
         IN updateEach(u.m, Tail(ids), updates, t,
                       IF u.found THEN count + 1 ELSE count)

\* C16: bulkUpdate(ids, patch) leaves the collection and the stats record as
\* update(id, patch) called for each id in order with the unmodified patch
\* leaves them (a task of the batch that is completed already keeps its
\* completedAt under a patch that sets status 'completed'), and returns the
\* number of ids that were found.
C16_BulkUpdateIsUpdateEach ==
    [][Called("bulkUpdate") =>
          LET e == updateEach(Cur, ret'.ids, ret'.arg, now, 0) IN
          /\ tasks' = e.m.tasks
          /\ lsStats' = e.m.lsStats
          /\ ret'.result = e.result]_vars

\* C17: clearCompleted removes every task whose status is 'completed' and no
\* other, keeps the others in their order, returns the number of tasks it
\* removed, and leaves no completed task in the collection.
C17_ClearCompletedRemovesCompleted ==
    [][Called("clearCompleted") =>
          LET notCompleted(t) == t.status # "completed" IN
          /\ tasks' = SelectSeq(tasks, notCompleted)
          /\ ret'.result = Len(tasks) - Len(tasks')
          /\ \A i \in 1..Len(tasks') : tasks'[i].status # "completed"]_vars

\* C17 witness: clearCompleted removed one task and kept the other.
C17_Witness ==
    /\ ret.op = "clearCompleted"
    /\ ret.result = 1
    /\ Len(tasks) = 1
    /\ tasks[1].status = "pending"

\* C18: the streak update that runs on every creation and on every transition
\* into 'completed' sets currentStreak to 1 when there is no lastActiveDate,
\* adds 1 when lastActiveDate is the day before today, sets it to 1 when
\* lastActiveDate is more than one day before today, leaves it when
\* lastActiveDate is today, and always sets lastActiveDate to today.
C18_StreakUpdate ==
    [][Called("create") \/ CompletesTask(ret', tasks) =>
          LET lastActive == lsStats.lastActiveDate
              today == getTodayString(now)
          IN /\ lsStats'.lastActiveDate = today
             /\ lastActive = Null => lsStats'.currentStreak = 1
             /\ lastActive # Null /\ today - lastActive = 1
                   => lsStats'.currentStreak = lsStats.currentStreak + 1
             /\ lastActive # Null /\ today - lastActive > 1 => lsStats'.currentStreak = 1
             /\ lastActive = today => lsStats'.currentStreak = lsStats.currentStreak]_vars

\* C18 witness: a task was completed two days after the last active day,
\* which ended a streak of two days.
C18_Witness ==
    /\ ret.op = "update"
    /\ ret.found
    /\ ret.task.status = "completed"
    /\ ret.task.completedAt = now
    /\ lsStats.currentStreak = 1
    /\ lsStats.longestStreak = 2
    /\ lsStats.lastActiveDate = getTodayString(now)

\* C19: from the default stats record, over create and update calls on any
\* days, longestStreak is at least currentStreak, never decreases, and is the
\* largest value currentStreak has had: in every step it becomes the larger
\* of what it was and the new currentStreak (both start at 0).
C19_LongestStreakIsRunningMax ==
    [][/\ lsStats'.longestStreak >= lsStats'.currentStreak
       /\ lsStats'.longestStreak >= lsStats.longestStreak
       /\ lsStats'.longestStreak =
             (IF lsStats'.currentStreak > lsStats.longestStreak
                THEN lsStats'.currentStreak ELSE lsStats.longestStreak)]_vars

\* C19 witness: after a streak of two days the current streak started again
\* at 1 and the longest streak is still 2.
C19_Witness ==
    /\ calls = 3
    /\ lsStats.currentStreak = 1
    /\ lsStats.longestStreak > lsStats.currentStreak

\* some completed task has its completedAt on the day
HasCompletion(ts, day) ==
    \E k \in 1..Len(ts) :
        /\ ts[k].status = "completed"
        /\ ts[k].completedAt # Null
        /\ DayOf(ts[k].completedAt) = day

\* the number of days in a row, back from the day last, that have a
\* completion (no task is completed before day 0)
RunEndingOn(ts, last) ==
    LET runs == {n \in 0..(last + 1) : \A k \in 0..(n - 1) : HasCompletion(ts, last - k)}
    IN CHOOSE n \in runs : \A m \in runs : m <= n

\* a collection with a completed task on every one of the days 0..LookbackDays
YearOfTasks == [k \in 1..(LookbackDays + 1) |-> HistoryTask(k - 1)]

C21_CompletionRate ==
    ret.op = "getStats" =>
        LET total == Len(tasks)
            completed == Cardinality({k \in 1..total : tasks[k].status = "completed"})
            rate == ret.result.completionRate
        IN /\ total = 0 => rate = 0
           /\ total > 0 /\ completed = total => rate = 100
           /\ total > 0 => rate = (200 * completed + total) \div (2 * total)
           /\ 0 <= rate /\ rate <= 100

\* C22: after load every task of the collection has a string id, a priority
\* and a createdAt: a stored record that lacks a string id or a priority is
\* migrated, also when a missing priority is its only defect.
C22_LoadMigratesEveryDefect ==
    ret.op = "init" =>
        \A i \in 1..Len(tasks) :
            /\ tasks[i].id > 0
            /\ tasks[i].priority # ""
            /\ tasks[i].createdAt # Null

\* C23: the migration pass run again on a collection that load has migrated
\* changes no task (ids, priority and createdAt stay) and writes nothing to
\* the store.
C23_MigrationIdempotent ==
    [][Called("migrateOldData") =>
          /\ tasks' = tasks
          /\ lsTasks' = lsTasks
          /\ ret'.wrote = 0]_vars

\* C23 witness: load gave the first record a generated id and the second the
\* default priority, and the pass was run again.
C23_Witness ==
    /\ ret.op = "migrateOldData"
    /\ ret.wrote = 0
    /\ Len(tasks) = 2
    /\ tasks[1].id = generateId(0)
    /\ tasks[2].priority = "medium"
    /\ lsTasks = Serialize(tasks)

\* the memory as it would be with a store that accepts every write
WritesSucceed(m) == [m EXCEPT !.full = FALSE]

\* C24: when the writes to the store fail, create, update, delete,
\* clearCompleted and import leave the in-memory collection as they would have
\* left it had the writes succeeded, and return what they would have returned.
C24_FailedWriteKeepsMutation ==
    [][quotaFull =>
          /\ Called("create") =>
                LET c == create(WritesSucceed(Cur), ret'.arg, now) IN
                tasks' = c.m.tasks /\ ret'.task = c.task /\ ret'.threw = c.threw
          /\ Called("update") =>
                LET u == update(WritesSucceed(Cur), ret'.id, ret'.arg, now) IN
                tasks' = u.m.tasks /\ ret'.task = u.task /\ ret'.found = u.found
          /\ Called("delete") =>
                LET d == delete(WritesSucceed(Cur), ret'.id) IN
                tasks' = d.m.tasks /\ ret'.result = d.result
          /\ Called("clearCompleted") =>
                LET c == clearCompleted(WritesSucceed(Cur)) IN
                tasks' = c.m.tasks /\ ret'.result = c.result
          /\ Called("import") =>
                LET i == import(WritesSucceed(Cur), ret'.arg, now) IN
                tasks' = i.m.tasks /\ ret'.result = i.result /\ ret'.threw = i.threw]_vars

\* C24 witness: with the store full a task was completed; the collection has
\* the completed task while the store still holds the pending one.
C24_Witness ==
    /\ quotaFull
    /\ ret.op = "update"
    /\ ret.wrote = 0
    /\ ret.found
    /\ ret.task.status = "completed"
    /\ Len(lsTasks) = 1
    /\ lsTasks[1].status = "pending"
    /\ tasks[1].status = "completed"

\* C25: delete, bulkDelete and clearCompleted leave the rolling stats record
\* (totals, streaks, lastActiveDate, dailyStats) as it was, so removing a
\* completed task takes nothing back from currentStreak or totalTasksCompleted.
C25_RemovalKeepsStats ==
    [][(Called("delete") \/ Called("bulkDelete") \/ Called("clearCompleted"))
          => lsStats' = lsStats]_vars

\* C25 witness: a task that was completed through update, and counted, has
\* been removed; the count and the streak are still there.
C25_Witness ==
    /\ ret.op \in {"delete", "bulkDelete", "clearCompleted"}
    /\ ret.wrote = 1
    /\ tasks = <<>>
    /\ lsStats.totalTasksCompleted = 1
    /\ lsStats.currentStreak = 1

\* update(id, updates) called on memory m does not count a completion again
\* when the task is completed already and updates.status is 'completed'
KeepsCompletion(m, id, updates, t) ==
    LET index == findIndex(m.tasks, id)
        u == update(m, id, updates, t)
    IN (/\ index # 0
        /\ "status" \in DOMAIN updates
        /\ updates.status = "completed"
        /\ m.tasks[index].status = "completed")
       => /\ u.m.lsStats.totalTasksCompleted = m.lsStats.totalTasksCompleted
          /\ u.m.lsStats.dailyStats = m.lsStats.dailyStats
          /\ u.m.lsStats.currentStreak = m.lsStats.currentStreak
          /\ u.m.tasks[index].completedAt = m.tasks[index].completedAt

\* update(id, updates) called on memory m counts one completion when it moves
\* a task that is not completed to 'completed'
CountsTransition(m, id, updates, t) ==
    LET index == findIndex(m.tasks, id)
        u == update(m, id, updates, t)
    IN (/\ index # 0
        /\ "status" \in DOMAIN updates
        /\ updates.status = "completed"
        /\ m.tasks[index].status # "completed")
       => u.m.lsStats.totalTasksCompleted = m.lsStats.totalTasksCompleted + 1

\* C27: every call update(id, patch) with patch.status = 'completed' on a task
\* that is completed already leaves totalTasksCompleted, dailyStats,
\* currentStreak and the task's completedAt as they were, and every such call
\* on a task that is not completed adds one to totalTasksCompleted; the calls
\* are those made directly and those bulkUpdate makes for its ids.
C27_CompletedAgainCountsNothing ==
    [][/\ Called("update") =>
             /\ KeepsCompletion(Cur, ret'.id, ret'.arg, now)
             /\ CountsTransition(Cur, ret'.id, ret'.arg, now)
       /\ Called("bulkUpdate") =>
             LET first == update(Cur, ret'.ids[1], ret'.arg, now) IN
             /\ KeepsCompletion(Cur, ret'.ids[1], ret'.arg, now)
             /\ CountsTransition(Cur, ret'.ids[1], ret'.arg, now)
             /\ KeepsCompletion(first.m, ret'.ids[2], first.updates, now)
             /\ CountsTransition(first.m, ret'.ids[2], first.updates, now)]_vars

\* C28: with every write to the store succeeding, once load has run the task
\* array in the store equals the in-memory collection after every repository
\* operation (load with migration, create, update, delete, bulkUpdate,
\* bulkDelete, clearCompleted, import), and a reload gives the same collection.
C28_StoreMirrorsCollection ==
    (Loaded /\ ~quotaFull) =>
        /\ lsTasks = Serialize(tasks)
        /\ Serialize(init(Cur, now).tasks) = Serialize(tasks)

\* C28 witness: the load migrated a record without id, and a task was created
\* after it; both are in the store as they are in memory.
C28_Witness ==
    /\ ret.op = "create"
    /\ ~ret.threw
    /\ Len(tasks) = 2
    /\ tasks[1].id = generateId(0)
    /\ tasks[1].priority = "medium"
    /\ lsTasks = Serialize(tasks)

\* C26: a timer tick changes timeLeft only: the task collection, the rolling
\* stats record and the timer's mode, totalTime and running flag are after
\* the tick what they were before it, also on the tick that brings timeLeft
\* to 0.
C26_TickChangesTimeLeftOnly ==
    [][ret'.op = "tick" =>
          /\ tasks' = tasks
          /\ lsStats' = lsStats
          /\ timer'.mode = timer.mode
          /\ timer'.totalTime = timer.totalTime
          /\ timer'.isRunning = timer.isRunning]_vars

\* C29: in every state the timer operations reach, the timer is running
\* exactly when one tick interval is scheduled, no interval is scheduled while
\* it is not running, and 0 <= timeLeft <= totalTime.
C29_RunningIffOneInterval ==
    /\ timer.isRunning <=> scheduled = 1
    /\ ~timer.isRunning => scheduled = 0
    /\ 0 <= timer.timeLeft
    /\ timer.timeLeft <= timer.totalTime

\* C29 witness: start was clicked while the timer was running (the stored
\* state is still that of the first start, ticks have passed since); one
\* interval is scheduled.
C29_Witness ==
    /\ ret.op = "start"
    /\ timer.isRunning
    /\ lsTimer.present
    /\ lsTimer.isRunning
    /\ lsTimer.timeLeft > timer.timeLeft
    /\ timer.mode = "shortBreak"
    /\ scheduled = 1

\* the state after a completion: not running, mode 'work', the full 25 minutes
Completed ==
    /\ ~timer.isRunning
    /\ timer.mode = "work"
    /\ timer.timeLeft = modes.work * SecondsPerMinute
    /\ timer.totalTime = modes.work * SecondsPerMinute

\* C30: a running timer, whatever its mode, reaches the completed state (not
\* running, mode 'work', timeLeft = totalTime = 25 minutes) unless it is
\* paused, reset or switched to another mode first.
C30_RunningTimerCompletes ==
    timer.isRunning ~> (Completed \/ ret.op \in {"pause", "reset", "setMode"})

====
